---------------------------- MODULE Spec2Model ----------------------------
(***************************************************************************)
(* Model of flaskr/auth.py and flaskr/db.py: registration, login, logout,  *)
(* per-request identity hydration (load_logged_in_user) and the            *)
(* login_required guard, running against the `user` table and a signed     *)
(* client-side session cookie.                                             *)
(*                                                                         *)
(* Every browser has at most one request in flight; the requests of        *)
(* different browsers interleave at the granularity of store statements.   *)
(* A request goes  idle -> view [-> insert] -> done -> idle.  An INSERT    *)
(* followed by commit() is one step: between the two the store holds the   *)
(* write lock, readers still see the old table and writers wait, so no     *)
(* other request can observe the difference.                               *)
(***************************************************************************)
EXTENDS Integers, Sequences, FiniteSets, TLC

(***************************************************************************)
(* Inputs                                                                  *)
(***************************************************************************)
Browsers == {"b1", "b2"}

\* submitted form values; "" is the empty field
Usernames == {"", "alice", "bob"}
Passwords == {"", "secret1", "wrong"}

\* keyword arguments the router passes to a guarded view
Kwargs == {"k1", "k2"}

\* number of distinct salts generate_password_hash may draw
NumSalts == 1
Salts == 1..NumSalts

\* largest user id a cookie issued before the table was re-created may carry
MaxStaleId == 1

VARIABLES
    user,        \* the `user` table: a set of rows [id, username, password]
    cookie,      \* cookie[b]: the session the browser holds between requests
    pc,          \* pc[b]: position of the browser's request
    req,         \* req[b]: the request being handled
    session,     \* session[b]: flask.session of the request being handled
    g,           \* g[b]: flask.g of the request being handled
    resp,        \* resp[b]: the response the view returned
    invoked,     \* invoked[b]: kwargs of every call of the guarded view in this request
    registered,  \* history: the (id, username, plaintext password) of every successful registration
    hydrations,  \* hydrations[b]: runs of load_logged_in_user in this request
    conns        \* conns[b]: store connections opened in this request, and those still open

vars == <<user, cookie, pc, req, session, g, resp, invoked, registered, hydrations, conns>>

(***************************************************************************)
(* werkzeug.security: a salted one-way hash.  The digest is an injective   *)
(* function of (salt, plaintext); the hash string carries the salt.        *)
(***************************************************************************)
Digest(salt, plaintext) == <<"pbkdf2", salt, plaintext>>

generate_password_hash(plaintext, salt) ==
    [salt |-> salt, digest |-> Digest(salt, plaintext)]

check_password_hash(pwhash, plaintext) ==
    pwhash.digest = Digest(pwhash.salt, plaintext)

(***************************************************************************)
(* flask.session: a dict.  `keys` is the set of keys present; user_id is 0 *)
(* and flashes is <<>> when their key is absent.                           *)
(***************************************************************************)
EmptySession == [keys |-> {}, user_id |-> 0, flashes |-> <<>>]

\* session.clear()
SessionClear(s) == EmptySession

\* session['user_id'] = id
SessionSetUserId(s, id) ==
    [s EXCEPT !.keys = @ \cup {"user_id"}, !.user_id = id]

\* session.get('user_id'): 0 stands for None
SessionGetUserId(s) == IF "user_id" \in s.keys THEN s.user_id ELSE 0


\* mutant: the message is not flashed
Flash_Dropped(s, message) == s

\* flask.flash(message): appends to the list kept under session['_flashes']
Flash(s, message) ==
    [s EXCEPT !.keys = @ \cup {"_flashes"}, !.flashes = Append(@, message)]

\* get_flashed_messages(), called by the page templates: pops session['_flashes']
PopFlashes(s) ==
    [s EXCEPT !.keys = @ \ {"_flashes"}, !.flashes = <<>>]

\* mutant: the error path answers without rendering the page
SessionAfterRender_NotRendered(s) == s

\* the session once render_template has rendered a page: its messages are shown
SessionAfterRender(s) == PopFlashes(s)

(***************************************************************************)
(* Responses                                                               *)
(***************************************************************************)
NoResponse == [kind |-> "none", target |-> "", flashes |-> <<>>]

\* redirect(url_for(endpoint))
Redirect(endpoint) == [kind |-> "redirect", target |-> endpoint, flashes |-> <<>>]

\* render_template(template): the page shows the messages flashed so far
RenderTemplate(template, s) ==
    [kind |-> "render", target |-> template, flashes |-> s.flashes]

\* an exception that leaves the view: the framework answers with an error page
Raised(exception) == [kind |-> "error", target |-> exception, flashes |-> <<>>]

\* what the view wrapped by login_required returns when called with kwargs
ViewResult(kwargs) == [kind |-> "view", target |-> kwargs, flashes |-> <<>>]

(***************************************************************************)
(* Requests                                                                *)
(***************************************************************************)
NoForm == [present |-> FALSE, username |-> "", password |-> ""]

Forms ==
    {[present |-> TRUE, username |-> u, password |-> p] : u \in Usernames, p \in Passwords}
    \cup {NoForm}

NoRequest == [route |-> "none", method |-> "GET", form |-> NoForm, kwargs |-> ""]

Requests ==
    {[route |-> r, method |-> "GET", form |-> NoForm, kwargs |-> ""] :
        r \in {"register", "login", "logout"}}
    \cup {[route |-> r, method |-> "POST", form |-> f, kwargs |-> ""] :
        r \in {"register", "login"}, f \in Forms}
    \cup {[route |-> "guarded", method |-> "GET", form |-> NoForm, kwargs |-> k] :
        k \in Kwargs}

(***************************************************************************)
(* The store: table user(id, username, password)                           *)
(***************************************************************************)
\* cursor.fetchone(): the first row of the result, or None (the empty set)
FetchOne(rows) ==
    IF rows = {} THEN {}
    ELSE {CHOOSE r \in rows : \A q \in rows : r.id <= q.id}

\* SELECT ... FROM user WHERE username = ?
SelectByUsername(table, username) == {r \in table : r.username = username}

\* SELECT * FROM user WHERE id = ?
SelectById(table, id) == {r \in table : r.id = id}

\* the id the store assigns to the next inserted row
NextRowId(table) ==
    IF table = {} THEN 1
    ELSE 1 + (CHOOSE m \in {r.id : r \in table} : \A r \in table : r.id <= m)

\* mutant: the table has no UNIQUE constraint on username
UniqueViolation_Off(table, username) == FALSE

\* the UNIQUE constraint on user.username rejects the INSERT
UniqueViolation(table, username) == \E r \in table : r.username = username

\* mutant: INSERT OR REPLACE into the first row instead of a new one
InsertUser_Overwrite(table, username, pwhash) ==
    {r \in table : r.id # 1}
    \cup {[id |-> 1, username |-> username, password |-> pwhash]}

\* INSERT INTO user (username, password) VALUES (?, ?)
InsertUser(table, username, pwhash) ==
    table \cup {[id |-> NextRowId(table), username |-> username, password |-> pwhash]}

(***************************************************************************)
(* flask.g                                                                 *)
(***************************************************************************)
\* user = {} is None; db tells whether 'db' in g
EmptyG == [user |-> {}, db |-> FALSE]

\* get_db(): opens the connection on first use and keeps it in g
get_db(gb) == [gb EXCEPT !.db = TRUE]

\* close_db(): g.pop('db') and close
close_db(gb) == [gb EXCEPT !.db = FALSE]

\* no connection opened, none open
NoConns == [opened |-> 0, open |-> 0]

\* get_db(): the sqlite3.connect calls it makes, none when 'db' is in g
Connects(gb) == IF gb.db THEN 0 ELSE 1

\* mutant: close_db is not run when the request ends
Closes_Never(gb) == 0

\* close_db(): the db.close() calls it makes, none when g holds no 'db'
Closes(gb) == IF gb.db THEN 1 ELSE 0

\* the connections after a get_db() call made with g as it is
AfterGetDb(c, gb) ==
    [opened |-> c.opened + Connects(gb), open |-> c.open + Connects(gb)]

\* the connections once the request has ended and close_db has run
AfterCloseDb(c, gb) == [opened |-> 0, open |-> c.open - Closes(gb)]

(***************************************************************************)
(* The views' decisions                                                    *)
(***************************************************************************)
NoError == <<>>

\* mutant: the validation without the query for an existing username
RegisterError_NoPrecheck(table, username, password) ==
    IF username = "" THEN <<"Username is required.">>
    ELSE IF password = "" THEN <<"Password is required.">>
    ELSE NoError

\* mutant: the password is validated before the username
RegisterError_PasswordFirst(table, username, password) ==
    IF password = "" THEN <<"Password is required.">>
    ELSE IF username = "" THEN <<"Username is required.">>
    ELSE IF FetchOne(SelectByUsername(table, username)) # {}
         THEN <<"User ", username, " is already registered.">>
    ELSE NoError

\* register(): the validation of a POST, in the order of the if/elif chain
RegisterError(table, username, password) ==
    IF username = "" THEN <<"Username is required.">>
    ELSE IF password = "" THEN <<"Password is required.">>
    ELSE IF FetchOne(SelectByUsername(table, username)) # {}
         THEN <<"User ", username, " is already registered.">>
    ELSE NoError

\* mutant: the password is not checked
LoginError_NoPasswordCheck(table, username, password) ==
    IF FetchOne(SelectByUsername(table, username)) = {}
    THEN <<"Incorrect username.">>
    ELSE NoError

\* mutant: a wrong password is reported with the message of an unknown username
LoginError_SameMessage(table, username, password) ==
    LET found == FetchOne(SelectByUsername(table, username))
    IN  IF found = {} THEN <<"Incorrect username.">>
        ELSE IF ~check_password_hash((CHOOSE r \in found : TRUE).password, password)
             THEN <<"Incorrect username.">>
        ELSE NoError

\* login(): the row queried first, then the username and the password checks
LoginError(table, username, password) ==
    LET found == FetchOne(SelectByUsername(table, username))
    IN  IF found = {} THEN <<"Incorrect username.">>
        ELSE IF ~check_password_hash((CHOOSE r \in found : TRUE).password, password)
             THEN <<"Incorrect password.">>
        ELSE NoError

\* mutant: session.setdefault('user_id', user['id']) on the uncleared session
LoginSession_KeepsOld(s, row) ==
    IF "user_id" \in s.keys THEN s ELSE SessionSetUserId(s, row.id)

\* login(): session.clear(); session['user_id'] = user['id']
LoginSession(s, row) == SessionSetUserId(SessionClear(s), row.id)

\* mutant: logout leaves the session as it is
LogoutSession_Noop(s) == s

\* mutant: session['user_id'] = None instead of session.clear()
LogoutSession_SetsNone(s) == SessionSetUserId(s, 0)

\* logout(): session.clear()
LogoutSession(s) == SessionClear(s)

\* mutant: the query for the session's user without its WHERE clause
LoadedUser_NoWhere(table, s) ==
    IF SessionGetUserId(s) = 0 THEN {}
    ELSE FetchOne(table)

\* load_logged_in_user(): g.user is None, or the row with the session's user_id
LoadedUser(table, s) ==
    IF SessionGetUserId(s) = 0 THEN {}
    ELSE FetchOne(SelectById(table, SessionGetUserId(s)))

\* mutant: the guard lets every request through
GuardPasses_Always(gb) == TRUE

\* mutant: the guard's test is inverted
GuardPasses_Inverted(gb) == gb.user = {}

\* login_required: whether wrapped_view calls the view
GuardPasses(gb) == gb.user # {}

(***************************************************************************)
(* Initial state: an empty table (init_db), no request in flight.  A       *)
(* browser may still hold a cookie issued before the table was re-created. *)
(***************************************************************************)
InitCookies ==
    {EmptySession} \cup {SessionSetUserId(EmptySession, i) : i \in 1..MaxStaleId}

Init ==
    /\ user = {}
    /\ cookie \in [Browsers -> InitCookies]
    /\ pc = [b \in Browsers |-> "idle"]
    /\ req = [b \in Browsers |-> NoRequest]
    /\ session = [b \in Browsers |-> EmptySession]
    /\ g = [b \in Browsers |-> EmptyG]
    /\ resp = [b \in Browsers |-> NoResponse]
    /\ invoked = [b \in Browsers |-> <<>>]
    /\ registered = {}
    /\ hydrations = [b \in Browsers |-> 0]
    /\ conns = [b \in Browsers |-> NoConns]

(***************************************************************************)
(* A request arrives: the session is opened from the browser's cookie and  *)
(* the before-request hook runs before any view.  Nothing another request  *)
(* does can come between the two: the cookie is the browser's own.         *)
(***************************************************************************)
\* mutant: load_logged_in_user is not registered as a before-request hook
load_logged_in_user_NotRegistered(b) ==
    /\ pc[b] = "idle"
    /\ \E r \in Requests : req' = [req EXCEPT ![b] = r]
    /\ session' = [session EXCEPT ![b] = cookie[b]]
    /\ g' = [g EXCEPT ![b] = EmptyG]
    /\ resp' = [resp EXCEPT ![b] = NoResponse]
    /\ invoked' = [invoked EXCEPT ![b] = <<>>]
    /\ pc' = [pc EXCEPT ![b] = "view"]
    /\ UNCHANGED <<user, cookie, registered, hydrations, conns>>

\* @bp.before_app_request load_logged_in_user
load_logged_in_user(b) ==
    /\ pc[b] = "idle"
    /\ \E r \in Requests : req' = [req EXCEPT ![b] = r]
    /\ session' = [session EXCEPT ![b] = cookie[b]]
    /\ g' = [g EXCEPT ![b] =
                IF SessionGetUserId(cookie[b]) = 0
                THEN [EmptyG EXCEPT !.user = {}]
                ELSE [get_db(EmptyG) EXCEPT !.user = LoadedUser(user, cookie[b])]]
    /\ resp' = [resp EXCEPT ![b] = NoResponse]
    /\ invoked' = [invoked EXCEPT ![b] = <<>>]
    /\ hydrations' = [hydrations EXCEPT ![b] = @ + 1]
    /\ conns' = [conns EXCEPT ![b] =
                    IF SessionGetUserId(cookie[b]) = 0 THEN @ ELSE AfterGetDb(@, EmptyG)]
    /\ pc' = [pc EXCEPT ![b] = "view"]
    /\ UNCHANGED <<user, cookie, registered>>

\* register(), up to the username pre-check
register(b) ==
    /\ pc[b] = "view"
    /\ req[b].route = "register"
    /\ IF req[b].method = "GET"
       THEN /\ resp' = [resp EXCEPT ![b] = RenderTemplate("auth/register.html", session[b])]
            /\ session' = [session EXCEPT ![b] = SessionAfterRender(@)]
            /\ pc' = [pc EXCEPT ![b] = "done"]
            /\ UNCHANGED <<g, conns>>
       ELSE IF ~req[b].form.present
       THEN /\ resp' = [resp EXCEPT ![b] = Raised("BadRequestKeyError")]
            /\ pc' = [pc EXCEPT ![b] = "done"]
            /\ UNCHANGED <<session, g, conns>>
       ELSE LET error == RegisterError(user, req[b].form.username, req[b].form.password)
                flashed == Flash(session[b], error)
            IN  /\ g' = [g EXCEPT ![b] = get_db(@)]
                /\ conns' = [conns EXCEPT ![b] = AfterGetDb(@, g[b])]
                /\ IF error = NoError
                   THEN /\ pc' = [pc EXCEPT ![b] = "insert"]
                        /\ UNCHANGED <<session, resp>>
                   ELSE /\ resp' = [resp EXCEPT ![b] =
                                        RenderTemplate("auth/register.html", flashed)]
                        /\ session' = [session EXCEPT ![b] = SessionAfterRender(flashed)]
                        /\ pc' = [pc EXCEPT ![b] = "done"]
    /\ UNCHANGED <<user, cookie, req, invoked, registered, hydrations>>

\* mutant: a successful registration also logs the requester in as the new user
register_insert_AutoLogin(b) ==
    /\ pc[b] = "insert"
    /\ \E salt \in Salts :
        LET username == req[b].form.username
            password == req[b].form.password
            pwhash == generate_password_hash(password, salt)
        IN  IF UniqueViolation(user, username)
            THEN /\ resp' = [resp EXCEPT ![b] = Raised("IntegrityError")]
                 /\ UNCHANGED <<user, registered, session>>
            ELSE /\ user' = InsertUser(user, username, pwhash)
                 /\ registered' = registered \cup
                        {[id |-> NextRowId(user), username |-> username,
                          password |-> password]}
                 /\ session' = [session EXCEPT ![b] =
                                    SessionSetUserId(SessionClear(@), NextRowId(user))]
                 /\ resp' = [resp EXCEPT ![b] = Redirect("auth.login")]
    /\ pc' = [pc EXCEPT ![b] = "done"]
    /\ UNCHANGED <<cookie, req, g, invoked, hydrations, conns>>

\* register(): the INSERT and commit() after a passed validation
register_insert(b) ==
    /\ pc[b] = "insert"
    /\ \E salt \in Salts :
        LET username == req[b].form.username
            password == req[b].form.password
            pwhash == generate_password_hash(password, salt)
        IN  IF UniqueViolation(user, username)
            THEN /\ resp' = [resp EXCEPT ![b] = Raised("IntegrityError")]
                 /\ UNCHANGED <<user, registered>>
            ELSE /\ user' = InsertUser(user, username, pwhash)
                 /\ registered' = registered \cup
                        {[id |-> NextRowId(user), username |-> username,
                          password |-> password]}
                 /\ resp' = [resp EXCEPT ![b] = Redirect("auth.login")]
    /\ pc' = [pc EXCEPT ![b] = "done"]
    /\ UNCHANGED <<cookie, req, session, g, invoked, hydrations, conns>>

\* login()
login(b) ==
    /\ pc[b] = "view"
    /\ req[b].route = "login"
    /\ IF req[b].method = "GET"
       THEN /\ resp' = [resp EXCEPT ![b] = RenderTemplate("auth/login.html", session[b])]
            /\ session' = [session EXCEPT ![b] = SessionAfterRender(@)]
            /\ UNCHANGED <<g, conns>>
       ELSE IF ~req[b].form.present
       THEN /\ resp' = [resp EXCEPT ![b] = Raised("BadRequestKeyError")]
            /\ UNCHANGED <<session, g, conns>>
       ELSE LET username == req[b].form.username
                password == req[b].form.password
                error == LoginError(user, username, password)
                flashed == Flash(session[b], error)
            IN  /\ g' = [g EXCEPT ![b] = get_db(@)]
                /\ conns' = [conns EXCEPT ![b] = AfterGetDb(@, g[b])]
                /\ IF error = NoError
                   THEN /\ session' = [session EXCEPT ![b] =
                              LoginSession(@, CHOOSE r \in FetchOne(SelectByUsername(user, username)) : TRUE)]
                        /\ resp' = [resp EXCEPT ![b] = Redirect("index")]
                   ELSE /\ resp' = [resp EXCEPT ![b] =
                                        RenderTemplate("auth/login.html", flashed)]
                        /\ session' = [session EXCEPT ![b] = SessionAfterRender(flashed)]
    /\ pc' = [pc EXCEPT ![b] = "done"]
    /\ UNCHANGED <<user, cookie, req, invoked, registered, hydrations>>

\* logout()
logout(b) ==
    /\ pc[b] = "view"
    /\ req[b].route = "logout"
    /\ session' = [session EXCEPT ![b] = LogoutSession(@)]
    /\ resp' = [resp EXCEPT ![b] = Redirect("index")]
    /\ pc' = [pc EXCEPT ![b] = "done"]
    /\ UNCHANGED <<user, cookie, req, g, invoked, registered, hydrations, conns>>

\* login_required(view): wrapped_view(**kwargs)
wrapped_view(b) ==
    /\ pc[b] = "view"
    /\ req[b].route = "guarded"
    /\ IF GuardPasses(g[b])
       THEN /\ invoked' = [invoked EXCEPT ![b] = Append(@, req[b].kwargs)]
            /\ resp' = [resp EXCEPT ![b] = ViewResult(req[b].kwargs)]
       ELSE /\ resp' = [resp EXCEPT ![b] = Redirect("auth.login")]
            /\ UNCHANGED invoked
    /\ pc' = [pc EXCEPT ![b] = "done"]
    /\ UNCHANGED <<user, cookie, req, session, g, registered, hydrations, conns>>

\* the response leaves: the session is saved into the cookie, close_db runs
teardown(b) ==
    /\ pc[b] = "done"
    /\ cookie' = [cookie EXCEPT ![b] = session[b]]
    /\ g' = [g EXCEPT ![b] = [close_db(@) EXCEPT !.user = {}]]
    /\ session' = [session EXCEPT ![b] = EmptySession]
    /\ req' = [req EXCEPT ![b] = NoRequest]
    /\ resp' = [resp EXCEPT ![b] = NoResponse]
    /\ invoked' = [invoked EXCEPT ![b] = <<>>]
    /\ hydrations' = [hydrations EXCEPT ![b] = 0]
    /\ conns' = [conns EXCEPT ![b] = AfterCloseDb(@, g[b])]
    /\ pc' = [pc EXCEPT ![b] = "idle"]
    /\ UNCHANGED <<user, registered>>

Next ==
    \E b \in Browsers :
        \/ load_logged_in_user(b)
        \/ register(b)
        \/ register_insert(b)
        \/ login(b)
        \/ logout(b)
        \/ wrapped_view(b)
        \/ teardown(b)

Spec == Init /\ [][Next]_vars

(***************************************************************************)
(* Vocabulary of the properties                                            *)
(***************************************************************************)
\* b's request is a POST to `route` carrying both form fields
IsPost(b, route) ==
    /\ req[b].route = route
    /\ req[b].method = "POST"
    /\ req[b].form.present

\* the browser's session as it stands: in the cookie between requests
CurrentSession(b) == IF pc[b] = "idle" THEN cookie[b] ELSE session[b]

\* a page re-rendered with exactly one flashed message
Rerendered(template, message) ==
    [kind |-> "render", target |-> template, flashes |-> <<message>>]

AlreadyRegistered(username) == <<"User ", username, " is already registered.">>

(***************************************************************************)
(* C1: register then login with the same credentials succeeds.  A register *)
(* POST with both fields non-empty and a username not in the table passes  *)
(* validation and, when its INSERT is not beaten by a concurrent one,      *)
(* creates the row and redirects to the login view; from then on a login   *)
(* POST with the registered credentials redirects to the home view with    *)
(* the session's user_id equal to the id of that row, the cookie keeps     *)
(* that id, and the hydration of the next request yields that user.        *)
(***************************************************************************)
C1_RegisterStep(b) ==
    (/\ pc[b] = "view" /\ IsPost(b, "register") /\ pc'[b] # "view"
     /\ req[b].form.username # "" /\ req[b].form.password # ""
     /\ ~\E row \in user : row.username = req[b].form.username)
    => pc'[b] = "insert"

C1_InsertStep(b) ==
    (/\ pc[b] = "insert" /\ pc'[b] = "done"
     /\ ~\E row \in user : row.username = req[b].form.username)
    => /\ resp'[b] = Redirect("auth.login")
       /\ \E row \in user' \ user :
            /\ user' = user \cup {row}
            /\ row.username = req[b].form.username
            /\ [id |-> row.id, username |-> req[b].form.username,
                password |-> req[b].form.password] \in registered'

C1_LoginStep(b) ==
    \A r \in registered :
        (/\ pc[b] = "view" /\ IsPost(b, "login") /\ pc'[b] = "done"
         /\ req[b].form.username = r.username
         /\ req[b].form.password = r.password)
        => /\ resp'[b] = Redirect("index")
           /\ "user_id" \in session'[b].keys
           /\ session'[b].user_id = r.id

C1_SaveStep(b) ==
    (/\ pc[b] = "done" /\ pc'[b] = "idle"
     /\ IsPost(b, "login") /\ resp[b] = Redirect("index"))
    => cookie'[b] = session[b]

C1_HydrateStep(b) ==
    \A r \in registered :
        (/\ pc[b] = "idle" /\ pc'[b] = "view"
         /\ "user_id" \in cookie[b].keys
         /\ cookie[b].user_id = r.id)
        => \E row \in user :
            /\ g'[b].user = {row}
            /\ row.id = r.id
            /\ row.username = r.username

C1_RegisterThenLogin ==
    [][\A b \in Browsers :
          /\ C1_RegisterStep(b)
          /\ C1_InsertStep(b)
          /\ C1_LoginStep(b)
          /\ C1_SaveStep(b)
          /\ C1_HydrateStep(b)]_vars

\* a login with registered credentials has just been answered
C1_Witness ==
    \E b \in Browsers : \E r \in registered :
        /\ pc[b] = "done" /\ IsPost(b, "login")
        /\ req[b].form.username = r.username
        /\ req[b].form.password = r.password
        /\ r.id = 2
        /\ resp[b] = Redirect("index")

(***************************************************************************)
(* C2: a register POST with a username that is already in the table and a  *)
(* non-empty password ends with the flash 'User {username} is already      *)
(* registered.' on the re-rendered form, inserts nothing and leaves every  *)
(* row, the stored hash included, as it was.                               *)
(***************************************************************************)
C2_DuplicateRegisterFails ==
    [][\A b \in Browsers :
          (/\ pc[b] = "view" /\ IsPost(b, "register") /\ pc'[b] # "view"
           /\ req[b].form.username # "" /\ req[b].form.password # ""
           /\ \E row \in user : row.username = req[b].form.username)
          => /\ pc'[b] = "done"
             /\ resp'[b] = Rerendered("auth/register.html",
                                      AlreadyRegistered(req[b].form.username))
             /\ user' = user]_vars

\* a registration of a taken username, with another password, was refused
C2_Witness ==
    \E b \in Browsers : \E r \in registered :
        /\ pc[b] = "done" /\ IsPost(b, "register")
        /\ req[b].form.username = r.username
        /\ req[b].form.password \notin {"", r.password}
        /\ resp[b] = Rerendered("auth/register.html", AlreadyRegistered(r.username))

(***************************************************************************)
(* C3: a register POST that passed the username pre-check and whose INSERT *)
(* then conflicts with a concurrent registration of the same username ends *)
(* like the pre-check: the 'already registered' flash on the re-rendered   *)
(* form.  So every validated register POST is answered either by the       *)
(* redirect to the login view or by that flash, never by a failure.        *)
(***************************************************************************)
C3_ConflictIsFlashed ==
    \A b \in Browsers :
        (/\ pc[b] = "done" /\ IsPost(b, "register")
         /\ req[b].form.username # "" /\ req[b].form.password # "")
        => resp[b] \in {Redirect("auth.login"),
                        Rerendered("auth/register.html",
                                   AlreadyRegistered(req[b].form.username))}

(***************************************************************************)
(* C4: no two rows of the user table have the same username, whatever the  *)
(* interleaving of register requests.                                      *)
(***************************************************************************)
C4_UsernamesUnique ==
    \A r1, r2 \in user : r1.username = r2.username => r1 = r2

\* two registrations of one username raced and the later INSERT was rejected
C4_Witness ==
    \E b \in Browsers :
        /\ pc[b] = "done" /\ IsPost(b, "register")
        /\ resp[b] = Raised("IntegrityError")
        /\ \E row \in user : row.username = req[b].form.username

(***************************************************************************)
(* C5: the session's user_id comes to hold a user's id only in the step of *)
(* a login POST whose submitted username is that user's and whose          *)
(* submitted password verifies against that user's stored hash; register,  *)
(* logout, hydration, the guard and GET requests never set it.             *)
(***************************************************************************)
C5_OnlyLoginSetsUserId ==
    [][\A b \in Browsers :
          LET before == SessionGetUserId(CurrentSession(b))
              after == SessionGetUserId(CurrentSession(b))'
          IN  (after # 0 /\ after # before)
              => /\ pc[b] = "view" /\ IsPost(b, "login")
                 /\ \E row \in user :
                      /\ row.id = after
                      /\ row.username = req[b].form.username
                      /\ check_password_hash(row.password, req[b].form.password)]_vars

\* a login has replaced the identity of a browser that was logged in as someone else
C5_Witness ==
    \E b \in Browsers :
        /\ pc[b] = "done" /\ IsPost(b, "login")
        /\ SessionGetUserId(cookie[b]) # 0
        /\ SessionGetUserId(session[b]) # 0
        /\ SessionGetUserId(session[b]) # SessionGetUserId(cookie[b])

(***************************************************************************)
(* C6: a login POST with a registered username and a password that is not  *)
(* the registered one ends with exactly the flash 'Incorrect password.' on *)
(* the re-rendered login form, not with a redirect, and leaves the session *)
(* as it was (no user_id is set).                                          *)
(***************************************************************************)
C6_WrongPassword ==
    [][\A b \in Browsers : \A r \in registered :
          (/\ pc[b] = "view" /\ IsPost(b, "login") /\ pc'[b] = "done"
           /\ req[b].form.username = r.username
           /\ req[b].form.password # r.password)
          => /\ resp'[b] = Rerendered("auth/login.html", <<"Incorrect password.">>)
             /\ session'[b] = session[b]]_vars

\* an anonymous browser has been refused for a wrong password
C6_Witness ==
    \E b \in Browsers : \E r \in registered :
        /\ pc[b] = "done" /\ IsPost(b, "login")
        /\ req[b].form.username = r.username
        /\ req[b].form.password \notin {"", r.password}
        /\ resp[b] = Rerendered("auth/login.html", <<"Incorrect password.">>)
        /\ "user_id" \notin session[b].keys

(***************************************************************************)
(* C7: a request to a guarded view whose hydrated identity is anonymous is *)
(* redirected to the login view and the wrapped view is not called.        *)
(***************************************************************************)
C7_AnonymousIsRedirected ==
    \A b \in Browsers :
        (pc[b] = "done" /\ req[b].route = "guarded" /\ g[b].user = {})
        => /\ resp[b] = Redirect("auth.login")
           /\ invoked[b] = <<>>

\* an anonymous request to the guarded view has been answered
C7_Witness ==
    \E b \in Browsers :
        /\ pc[b] = "done" /\ req[b].route = "guarded" /\ g[b].user = {}
        /\ resp[b] = Redirect("auth.login")

(***************************************************************************)
(* C8: a request to a guarded view whose hydrated identity is a user calls *)
(* the wrapped view exactly once, with the request's keyword arguments,    *)
(* and returns what the view returned.                                     *)
(***************************************************************************)
C8_AuthenticatedIsForwarded ==
    \A b \in Browsers :
        (pc[b] = "done" /\ req[b].route = "guarded" /\ g[b].user # {})
        => /\ invoked[b] = <<req[b].kwargs>>
           /\ resp[b] = ViewResult(req[b].kwargs)

\* an authenticated request to the guarded view has been answered
C8_Witness ==
    \E b \in Browsers : \E row \in user :
        /\ pc[b] = "done" /\ req[b].route = "guarded" /\ g[b].user = {row}
        /\ Len(invoked[b]) = 1

(***************************************************************************)
(* C9: logout leaves no user_id in the session, whatever the session held; *)
(* the cookie saved after it has none, the hydration of the next request   *)
(* yields the anonymous identity, and a guarded view requested then is     *)
(* redirected to the login view.                                           *)
(***************************************************************************)
C9_LogoutStep(b) ==
    (pc[b] = "view" /\ req[b].route = "logout" /\ pc'[b] = "done")
    => SessionGetUserId(session'[b]) = 0

C9_SaveStep(b) ==
    (pc[b] = "done" /\ req[b].route = "logout" /\ pc'[b] = "idle")
    => SessionGetUserId(cookie'[b]) = 0

C9_HydrateStep(b) ==
    (pc[b] = "idle" /\ SessionGetUserId(cookie[b]) = 0 /\ pc'[b] = "view")
    => g'[b].user = {}

C9_GuardStep(b) ==
    (/\ pc[b] = "view" /\ req[b].route = "guarded" /\ pc'[b] = "done"
     /\ SessionGetUserId(cookie[b]) = 0)
    => resp'[b] = Redirect("auth.login")

C9_LogoutThenAnonymous ==
    [][\A b \in Browsers :
          /\ C9_LogoutStep(b)
          /\ C9_SaveStep(b)
          /\ C9_HydrateStep(b)
          /\ C9_GuardStep(b)]_vars

\* a browser that was authenticated as a user has logged out
C9_Witness ==
    \E b \in Browsers :
        /\ pc[b] = "done" /\ req[b].route = "logout"
        /\ g[b].user # {}
        /\ SessionGetUserId(session[b]) = 0

(***************************************************************************)
(* C10: logout is idempotent.  Every logout leaves the session empty, the  *)
(* user table as it was and answers with the redirect to the home view; on *)
(* a session that is already logged out it changes nothing, so a second    *)
(* logout ends in the state of the first.                                  *)
(***************************************************************************)
C10_LogoutIdempotent ==
    [][\A b \in Browsers :
          (pc[b] = "view" /\ req[b].route = "logout" /\ pc'[b] = "done")
          => /\ session'[b] = EmptySession
             /\ LogoutSession(session'[b]) = session'[b]
             /\ resp'[b] = Redirect("index")
             /\ user' = user
             /\ ("user_id" \notin session[b].keys => session'[b] = session[b])]_vars

\* a logout on a session that was already logged out has been answered
C10_Witness ==
    \E b \in Browsers :
        /\ pc[b] = "done" /\ req[b].route = "logout"
        /\ "user_id" \notin cookie[b].keys
        /\ session[b] = EmptySession
        /\ resp[b] = Redirect("index")

(***************************************************************************)
(* C11: a row of the user table keeps its id, username and password hash   *)
(* and is never removed; the table changes only in the step of a register  *)
(* POST that is answered by the redirect to the login view, and that step  *)
(* adds exactly one row, under an id no row had.                           *)
(***************************************************************************)
C11_RowsAreImmutable ==
    [][/\ user \subseteq user'
       /\ \A r1, r2 \in user' : r1.id = r2.id => r1 = r2
       /\ user' # user =>
            \E b \in Browsers : \E row \in user' :
                /\ pc[b] = "insert" /\ IsPost(b, "register")
                /\ pc'[b] = "done" /\ resp'[b] = Redirect("auth.login")
                /\ row \notin user
                /\ user' = user \cup {row}]_vars

\* a second registration has succeeded next to the row of the first
C11_Witness ==
    \E b \in Browsers : \E r1, r2 \in user :
        /\ pc[b] = "done" /\ IsPost(b, "register")
        /\ resp[b] = Redirect("auth.login")
        /\ r1.id = 1 /\ r2.id = 2
        /\ r2.username = req[b].form.username

(***************************************************************************)
(* C12: a register POST picks its error in a fixed order: an empty         *)
(* username gives 'Username is required.'; otherwise an empty password     *)
(* gives 'Password is required.'; otherwise a row with that username gives *)
(* 'User {username} is already registered.'.  In each of these cases the   *)
(* form is re-rendered with that message and no row is inserted.  A row is *)
(* inserted only when none of them applies, and then it is exactly one row *)
(* with the submitted username, answered by the redirect to the login view.*)
(* The cases are those the view sees at its pre-check; a username taken    *)
(* between the pre-check and the INSERT is the case of C3, and no row is   *)
(* inserted then either.                                                   *)
(***************************************************************************)
C12_Expected(b) ==
    IF req[b].form.username = "" THEN <<"Username is required.">>
    ELSE IF req[b].form.password = "" THEN <<"Password is required.">>
    ELSE IF \E row \in user : row.username = req[b].form.username
         THEN AlreadyRegistered(req[b].form.username)
    ELSE <<>>

C12_ValidationStep(b) ==
    (pc[b] = "view" /\ IsPost(b, "register") /\ pc'[b] # "view")
    => /\ user' = user
       /\ IF C12_Expected(b) = <<>>
          THEN pc'[b] = "insert"
          ELSE /\ pc'[b] = "done"
               /\ resp'[b] = Rerendered("auth/register.html", C12_Expected(b))

C12_InsertStep(b) ==
    (pc[b] = "insert" /\ pc'[b] = "done")
    => IF C12_Expected(b) = <<>>
       THEN /\ resp'[b] = Redirect("auth.login")
            /\ Cardinality(user') = Cardinality(user) + 1
            /\ \E row \in user' \ user : row.username = req[b].form.username
       ELSE user' = user

C12_RegisterPriority ==
    [][\A b \in Browsers : C12_ValidationStep(b) /\ C12_InsertStep(b)]_vars

\* both fields were empty and the username's message won
C12_Witness ==
    \E b \in Browsers :
        /\ pc[b] = "done" /\ IsPost(b, "register")
        /\ req[b].form.username = "" /\ req[b].form.password = ""
        /\ resp[b] = Rerendered("auth/register.html", <<"Username is required.">>)

(***************************************************************************)
(* C13: a register or login POST that fails validation (empty username,    *)
(* empty password, username already registered, unknown username, wrong    *)
(* password) flashes exactly one message in its request; a POST that       *)
(* succeeds flashes none.  The session holds no message when the request   *)
(* starts, so the messages of the request are those on the rendered page   *)
(* plus those left in the session.                                         *)
(***************************************************************************)
C13_Flashed(b) == Len(resp'[b].flashes) + Len(session'[b].flashes)

C13_LoginFails(b) ==
    ~\E r \in registered :
        r.username = req[b].form.username /\ r.password = req[b].form.password

C13_RegisterStep(b) ==
    (/\ pc[b] = "view" /\ IsPost(b, "register") /\ pc'[b] = "done"
     /\ C12_Expected(b) # <<>>)
    => session[b].flashes = <<>> /\ C13_Flashed(b) = 1

C13_InsertStep(b) ==
    (pc[b] = "insert" /\ pc'[b] = "done" /\ user' # user)
    => session[b].flashes = <<>> /\ C13_Flashed(b) = 0

C13_LoginStep(b) ==
    (pc[b] = "view" /\ IsPost(b, "login") /\ pc'[b] = "done")
    => /\ session[b].flashes = <<>>
       /\ C13_Flashed(b) = IF C13_LoginFails(b) THEN 1 ELSE 0

C13_OneFlashPerFailure ==
    [][\A b \in Browsers :
          C13_RegisterStep(b) /\ C13_InsertStep(b) /\ C13_LoginStep(b)]_vars

\* a login with an unknown username has flashed its one message
C13_Witness ==
    \E b \in Browsers :
        /\ pc[b] = "done" /\ IsPost(b, "login")
        /\ ~\E row \in user : row.username = req[b].form.username
        /\ resp[b].flashes = << <<"Incorrect username.">> >>

(***************************************************************************)
(* C14: right after a successful login the session holds exactly one key,  *)
(* user_id, and its value is the id of the user whose name was submitted;  *)
(* nothing the session held before the login is left, a user_id of another *)
(* user included.                                                          *)
(***************************************************************************)
C14_SessionAfterLogin ==
    \A b \in Browsers :
        (pc[b] = "done" /\ IsPost(b, "login") /\ resp[b] = Redirect("index"))
        => /\ session[b].keys = {"user_id"}
           /\ session[b].flashes = <<>>
           /\ \E row \in user :
                /\ row.username = req[b].form.username
                /\ row.id = session[b].user_id

\* a browser logged in as one user has logged in as another
C14_Witness ==
    \E b \in Browsers : \E old, new \in user :
        /\ pc[b] = "done" /\ IsPost(b, "login") /\ resp[b] = Redirect("index")
        /\ "user_id" \in cookie[b].keys /\ cookie[b].user_id = old.id
        /\ new.username = req[b].form.username
        /\ old.id # new.id
        /\ session[b].user_id = new.id

C16_Matching(b) ==
    {row \in user : "user_id" \in cookie[b].keys /\ row.id = cookie[b].user_id}

C16_HydratedIdentity ==
    [][\A b \in Browsers :
          /\ (pc[b] = "idle" /\ pc'[b] # "idle")
             => /\ g'[b].user = C16_Matching(b)
                /\ Cardinality(C16_Matching(b)) <= 1
                /\ pc'[b] = "view"
                /\ resp'[b] = NoResponse
          /\ g'[b].user \subseteq user']_vars

\* a cookie carries a user_id that no row has: the request is anonymous
C16_Witness ==
    \E b \in Browsers :
        /\ pc[b] = "view"
        /\ "user_id" \in cookie[b].keys
        /\ ~\E row \in user : row.id = cookie[b].user_id
        /\ g[b].user = {}

(***************************************************************************)
(* C17: in every request, whatever its route, the hydration has run        *)
(* exactly once when the view or the guard runs; the identity they see is  *)
(* the one computed from the session the request arrived with, and it is   *)
(* not computed again in the request, not even when the request itself     *)
(* changes the session (login, logout).                                    *)
(***************************************************************************)
C17_HydratedOnce ==
    [][\A b \in Browsers :
          /\ pc'[b] # "idle" => hydrations'[b] = 1
          /\ (pc[b] = "idle" /\ pc'[b] # "idle")
             => g'[b].user = C16_Matching(b)
          /\ (pc[b] # "idle" /\ pc'[b] # "idle")
             => g'[b].user = g[b].user
          /\ (pc[b] = "view" /\ req[b].route = "guarded" /\ pc'[b] = "done")
             => (resp'[b] = ViewResult(req[b].kwargs) <=> g[b].user # {})]_vars

\* a login has changed the session of a request that stays anonymous
C17_Witness ==
    \E b \in Browsers :
        /\ pc[b] = "done" /\ IsPost(b, "login") /\ resp[b] = Redirect("index")
        /\ hydrations[b] = 1
        /\ g[b].user = {}
        /\ "user_id" \in session[b].keys

(***************************************************************************)
(* C18: a request opens at most one store connection, and opens it at its  *)
(* first store access: the hydration when the session carries a user_id,   *)
(* else the register or login POST.  Whatever the exit path of the request *)
(* (a response, a validation error, an exception of the view or of the     *)
(* store), once it has ended the connection is closed and g holds none.    *)
(***************************************************************************)
C18_StoreAccessed(b) ==
    \/ SessionGetUserId(cookie[b]) # 0
    \/ /\ pc[b] \in {"insert", "done"}
       /\ IsPost(b, "register") \/ IsPost(b, "login")

C18_ConnectionScoped ==
    \A b \in Browsers :
        /\ conns[b].opened <= 1
        /\ conns[b].open = IF g[b].db THEN 1 ELSE 0
        /\ pc[b] = "idle" => (conns[b] = NoConns /\ ~g[b].db)
        /\ pc[b] # "idle" => (conns[b].opened = 1 <=> C18_StoreAccessed(b))

\* a request that opened its connection at hydration ends with an exception of the store
C18_Witness ==
    \E b \in Browsers :
        /\ pc[b] = "done" /\ resp[b] = Raised("IntegrityError")
        /\ SessionGetUserId(cookie[b]) # 0
        /\ conns[b] = [opened |-> 1, open |-> 1]

(***************************************************************************)
(* C19: a login POST that fails (unknown username or wrong password)       *)
(* leaves the session exactly as the request found it, and the cookie      *)
(* saved after it is the cookie the browser sent: a browser authenticated  *)
(* as a user still carries that user's id on its next request.             *)
(***************************************************************************)
C19_LoginStep(b) ==
    (/\ pc[b] = "view" /\ IsPost(b, "login") /\ pc'[b] = "done"
     /\ C13_LoginFails(b))
    => /\ session'[b] = session[b]
       /\ session'[b] = cookie[b]
       /\ resp'[b] # Redirect("index")

C19_SaveStep(b) ==
    (/\ pc[b] = "done" /\ IsPost(b, "login") /\ pc'[b] = "idle"
     /\ resp[b] # Redirect("index"))
    => cookie'[b] = cookie[b]

C19_FailedLoginKeepsSession ==
    [][\A b \in Browsers : C19_LoginStep(b) /\ C19_SaveStep(b)]_vars

\* a browser authenticated as a user has submitted a wrong password
C19_Witness ==
    \E b \in Browsers : \E row \in user :
        /\ pc[b] = "done" /\ IsPost(b, "login")
        /\ resp[b] = Rerendered("auth/login.html", <<"Incorrect password.">>)
        /\ g[b].user = {row}
        /\ session[b] = cookie[b]
        /\ session[b].user_id = row.id

(***************************************************************************)
(* C20: no register request, GET or POST, successful or failed, changes    *)
(* the session's user_id: after each of its steps the session carries the  *)
(* user_id the request arrived with (or none, as it arrived), and so does  *)
(* the cookie saved after it.  A registration does not log the requester   *)
(* in, and a requester logged in as one user stays so after registering    *)
(* another.                                                                *)
(***************************************************************************)
C20_SameUserId(s, t) ==
    /\ ("user_id" \in s.keys) = ("user_id" \in t.keys)
    /\ SessionGetUserId(s) = SessionGetUserId(t)

C20_RegisterKeepsUserId ==
    [][\A b \in Browsers :
          (pc[b] # "idle" /\ req[b].route = "register")
          => IF pc'[b] = "idle"
             THEN C20_SameUserId(cookie'[b], cookie[b])
             ELSE C20_SameUserId(session'[b], cookie[b])]_vars

\* a browser logged in as one user has registered another
C20_Witness ==
    \E b \in Browsers : \E old, new \in user :
        /\ pc[b] = "done" /\ IsPost(b, "register")
        /\ resp[b] = Redirect("auth.login")
        /\ g[b].user = {old}
        /\ new.username = req[b].form.username
        /\ new.id # old.id
        /\ session[b].user_id = old.id
=============================================================================
